---------------------------- MODULE Spec2Model ----------------------------
(***************************************************************************)
(* Model of the summary synchroniser (src/summary_sync.py, src/main.py).   *)
(*                                                                         *)
(* Strings.  A Python str is modelled as a sequence of characters, each    *)
(* character being a one-character token.  ASCII characters are written as *)
(* themselves ("a", "N", " ", "_").  A Cyrillic letter is written "#" plus *)
(* its transliteration, in the letter's own case: "#m" is the small letter *)
(* em, "#M" the capital one, "#zh"/"#ZH" zhe, "#q" the soft sign.  "#--"   *)
(* is the em dash and "#xx" the cross mark of the 'sheet not found' text.  *)
(* So <<"#I","#v","#a","#n","#o","#v">> is the name Ivanov in Cyrillic.    *)
(***************************************************************************)
EXTENDS Integers, Sequences, FiniteSets, TLC

VARIABLES
  \* analyze_single_sheet (the scan of one source sheet)
  data,                    \* rows of the sheet read so far (data[1] is row 0)
  idx,                     \* resolved column indices (0-based, -1 = absent)
  stats,                   \* manager -> counters
  is_red_section,
  consecutive_empty_rows,
  scan_pc,                 \* "off" | "resolve" | "read" | "scan" | "done"
  result,                  \* the rows returned by analyze_single_sheet
  source_titles_lower,     \* analyze_single_sheet: the cached title map
  asked_name,              \* analyze_single_sheet: its argument sheet_name
  real_name,               \* analyze_single_sheet: real_name
  \* api_call_with_backoff
  attempt,                 \* the loop variable of the retry loop
  fn_calls,                \* the outcomes of the invocations of fn so far
  sleeps,                  \* the time.sleep() calls made so far (seconds)
  bo_pc,                   \* "off" | "loop" | "returned" | "raised_http" |
                           \* "raised_other" | "raised_runtime"
  \* main, run_summary_once, update_one_month
  pc,                      \* where the process is (see the actions)
  now,                     \* time.time(), in seconds
  settings,                \* the rows of the Settings sheet (A2:B)
  max_months,              \* MAX_MONTHS_PER_RUN of the environment
  cursor_file,             \* /tmp/summary_cursor.json: <<>> or <<i>>
  files,                   \* the state files: path -> [hash, last_write_ts]
  dest,                    \* the report sheets: title -> rows of columns A..M
  start,                   \* run_summary_once: start
  chosen,                  \* run_summary_once: chosen
  pos,                     \* the pair of chosen being processed (1-based)
  our_data,                \* update_one_month: our_data
  yandex_data,             \* update_one_month: yandex_data
  values,                  \* update_one_month: values
  log,                     \* the calls and messages of the current pass
  last_error,              \* the last cycle ended in main's except clause
  ledger                   \* history: report -> its last write_values of the grid

scan_vars == <<data, idx, stats, is_red_section, consecutive_empty_rows,
               scan_pc, result, source_titles_lower, asked_name, real_name>>
bo_vars == <<attempt, fn_calls, sleeps, bo_pc>>
sync_vars == <<pc, now, settings, max_months, cursor_file, files, dest, start,
               chosen, pos, our_data, yandex_data, values, log, last_error,
               ledger>>
vars == <<scan_vars, bo_vars, sync_vars>>

-----------------------------------------------------------------------------
(* Characters and the str methods the program uses *)

AsciiLower == <<"a", "b", "c", "d", "e", "f", "g", "h", "i", "j", "k", "l", "m", "n", "o", "p", "q", "r", "s", "t", "u", "v", "w", "x", "y", "z">>
AsciiUpper == <<"A", "B", "C", "D", "E", "F", "G", "H", "I", "J", "K", "L", "M", "N", "O", "P", "Q", "R", "S", "T", "U", "V", "W", "X", "Y", "Z">>
CyrLower == <<"#a", "#b", "#v", "#g", "#d", "#e", "#zh", "#z", "#i", "#j", "#k", "#l", "#m", "#n", "#o", "#p", "#r", "#s", "#t", "#u", "#f", "#h", "#c", "#ch", "#sh", "#sch", "#y", "#q", "#eh", "#yu", "#ya">>
CyrUpper == <<"#A", "#B", "#V", "#G", "#D", "#E", "#ZH", "#Z", "#I", "#J", "#K", "#L", "#M", "#N", "#O", "#P", "#R", "#S", "#T", "#U", "#F", "#H", "#C", "#CH", "#SH", "#SCH", "#Y", "#Q", "#EH", "#YU", "#YA">>
Digits == <<"0", "1", "2", "3", "4", "5", "6", "7", "8", "9">>

LowerLetters == AsciiLower \o CyrLower
UpperLetters == AsciiUpper \o CyrUpper

Range(f) == {f[x] : x \in DOMAIN f}

\* All characters of the model in code point order (Python compares str so).
CodeOrder ==
  <<" ", "\"", "%", "(", ")", "-", ".", "/">> \o Digits \o <<":">>
    \o AsciiUpper \o <<"_">> \o AsciiLower \o CyrUpper \o CyrLower
    \o <<"#--", "#xx">>

CodePoint == [c \in Range(CodeOrder) |->
                CHOOSE k \in DOMAIN CodeOrder : CodeOrder[k] = c]

LowerOf == [c \in Range(UpperLetters) |->
              LowerLetters[CHOOSE k \in DOMAIN UpperLetters : UpperLetters[k] = c]]
UpperOf == [c \in Range(LowerLetters) |->
              UpperLetters[CHOOSE k \in DOMAIN LowerLetters : LowerLetters[k] = c]]

\* str.lower(), str.upper()
lower(s) == [k \in DOMAIN s |-> IF s[k] \in DOMAIN LowerOf THEN LowerOf[s[k]] ELSE s[k]]
upper(s) == [k \in DOMAIN s |-> IF s[k] \in DOMAIN UpperOf THEN UpperOf[s[k]] ELSE s[k]]

IsSpace(c) == c = " "

\* str.strip()
RECURSIVE lstrip(_)
lstrip(s) == IF s # <<>> /\ IsSpace(Head(s)) THEN lstrip(Tail(s)) ELSE s
RECURSIVE rstrip(_)
rstrip(s) == IF s # <<>> /\ IsSpace(s[Len(s)]) THEN rstrip(SubSeq(s, 1, Len(s) - 1)) ELSE s
strip(s) == rstrip(lstrip(s))

\* sub in s
Contains(sub, s) ==
  \E k \in 0..(Len(s) - Len(sub)) : SubSeq(s, k + 1, k + Len(sub)) = sub

\* sep.join(parts)
RECURSIVE JoinFrom(_, _, _)
JoinFrom(sep, parts, k) ==
  IF k > Len(parts) THEN <<>>
  ELSE (IF k > 1 THEN sep ELSE <<>>) \o parts[k] \o JoinFrom(sep, parts, k + 1)

\* parts is bound to its value once, then joined from its first element on
join(sep, parts) == CHOOSE out \in { JoinFrom(sep, p, 1) : p \in {parts} } : TRUE

\* a < b for str, by code points
RECURSIVE StrLess(_, _)
StrLess(a, b) ==
  IF b = <<>> THEN FALSE
  ELSE IF a = <<>> THEN TRUE
  ELSE IF a[1] = b[1] THEN StrLess(Tail(a), Tail(b))
  ELSE CodePoint[a[1]] < CodePoint[b[1]]

-----------------------------------------------------------------------------
(* Configuration and literals of summary_sync.py *)

RED_GAP_ROWS == 5

KEYWORDS ==
  [MANAGER |-> <<<<"#m", "#e", "#n", "#e", "#d", "#zh", "#e", "#r">>,
                 <<"#s", "#o", "#t", "#r", "#u", "#d", "#n", "#i", "#k">>,
                 <<"m", "a", "n", "a", "g", "e", "r">>>>,
   OPF |-> <<<<"#o", "#p", "#f">>,
             <<"#f", "#o", "#r", "#m", "#a">>>>,
   CONTRACT |-> <<<<"#d", "#o", "#g", "#o", "#v", "#o", "#r">>,
                  <<"#k", "#o", "#n", "#t", "#r", "#a", "#k", "#t">>>>,
   ACCEPT |-> <<<<"#a", "#k", "#c", "#e", "#p", "#t">>,
                <<"#p", "#l", "#a", "#t", "#e", "#zh", "#k", "#i">>,
                <<"#o", "#p", "#l", "#a", "#t", "#a">>,
                <<"#p", "#o", "#e", "#h", "#a", "#l", "#i">>>>,
   TAGS |-> <<<<"#m", "#e", "#t", "#k", "#i">>,
              <<"#n", "#a", "#l", "#i", "#ch", "#i", "#e", " ", "#m", "#e", "#t", "#k", "#i">>,
              <<"n", "i", "b">>>>]

\* the literals of the row processing (lines 284-332)
LIT_manager == <<"#m", "#e", "#n", "#e", "#d", "#zh", "#e", "#r">>
LIT_ip_sp == <<"#i", "#p", " ">>
LIT_ip_quote == <<"#i", "#p", "\"">>
LIT_zhk_sp == <<"#zh", "#k", " ">>
LIT_too == <<"#t", "#o", "#o">>
LIT_net == <<"#n", "#e", "#t">>
LIT_otkaz == <<"#o", "#t", "#k", "#a", "#z">>
LIT_oshibka == <<"#o", "#sh", "#i", "#b", "#k", "#a">>
LIT_nib_sale == <<"n", "i", "b", "_", "s", "a", "l", "e">>
LIT_nib == <<"n", "i", "b">>
LIT_sp_nib_sp == <<" ", "n", "i", "b", " ">>
LIT_krasn == <<"#k", "#r", "#a", "#s", "#n">>
CONTRACT_NEGATIVE == {<<>>, LIT_net, <<"0">>, <<"-">>, <<"#--">>}
TAG_ZERO == {<<"0">>, <<"0", ".", "0">>}

-----------------------------------------------------------------------------
(* normalize_name, find_idx *)

None == <<"None">>       \* Python's None where a str is expected

normalize_name(name) ==
  IF name = <<>> THEN None
  ELSE LET s == strip(name) IN
       IF Len(s) < 2 THEN None
       ELSE upper(SubSeq(s, 1, 1)) \o lower(SubSeq(s, 2, Len(s)))

\* index (0-based) of the first header containing a keyword, -1 if none
find_idx(headers, keywords) ==
  LET hit(k) == \E w \in DOMAIN keywords : Contains(keywords[w], headers[k])
  IN IF \E k \in DOMAIN headers : hit(k)
     THEN (CHOOSE k \in DOMAIN headers :
              hit(k) /\ \A j \in 1..(k - 1) : ~hit(j)) - 1
     ELSE -1

\* [str(h).lower().strip() for h in row]
HeaderCells(row) == [k \in DOMAIN row |-> strip(lower(row[k]))]


-----------------------------------------------------------------------------
(* analyze_single_sheet: header resolution *)

\* row[k] if k < len(row) else ""   (k is 0-based)
Cell(row, k) == IF k < Len(row) THEN row[k + 1] ELSE <<>>

ResolveIdx(d) ==
  LET headers == HeaderCells(d[1])
      man0 == find_idx(headers, KEYWORDS.MANAGER)
  IN [man |-> IF man0 = -1 /\ Len(d) > 2
              THEN find_idx(HeaderCells(d[2]), KEYWORDS.MANAGER)
              ELSE man0,
      opf |-> find_idx(headers, KEYWORDS.OPF),
      contract |-> find_idx(headers, KEYWORDS.CONTRACT),
      accept |-> find_idx(headers, KEYWORDS.ACCEPT),
      tags |-> find_idx(headers, KEYWORDS.TAGS)]

-----------------------------------------------------------------------------
(* analyze_single_sheet: the processing of one row (lines 272-333) *)

NewStats ==
  [total |-> 0, ip |-> 0, too |-> 0, contract |-> 0, accept |-> 0,
   nib_sale |-> 0, nib |-> 0, zero |-> 0, empty_tag |-> 0, other_tag |-> 0,
   red |-> 0]

\* " ".join(str(x).lower() for x in row)
RowText(row) == join(<<" ">>, [k \in DOMAIN row |-> lower(row[k])])

OpfText(ix, row) ==
  (IF ix.opf > -1 /\ ix.opf < Len(row) THEN lower(Cell(row, ix.opf)) ELSE <<>>)
    \o <<" ">> \o RowText(row)

CountOpf(s, opf_text) ==
  LET s1 == IF Contains(LIT_ip_sp, opf_text) \/ Contains(LIT_ip_quote, opf_text)
               \/ Contains(LIT_zhk_sp, opf_text)
            THEN [s EXCEPT !.ip = @ + 1] ELSE s
  IN IF Contains(LIT_too, opf_text) THEN [s1 EXCEPT !.too = @ + 1] ELSE s1

CountContract(ix, s, row) ==
  IF ix.contract > -1 /\ ix.contract < Len(row)
     /\ strip(lower(Cell(row, ix.contract))) \notin CONTRACT_NEGATIVE
  THEN [s EXCEPT !.contract = @ + 1] ELSE s

CountAccept(ix, s, row) ==
  LET val == lower(Cell(row, ix.accept)) IN
  IF ix.accept > -1 /\ ix.accept < Len(row)
     /\ Len(val) > 1 /\ ~Contains(LIT_net, val) /\ ~Contains(LIT_otkaz, val)
     /\ ~Contains(LIT_oshibka, val)
  THEN [s EXCEPT !.accept = @ + 1] ELSE s

TagVal(ix, row) ==
  IF ix.tags > -1 /\ ix.tags < Len(row) THEN strip(lower(Cell(row, ix.tags))) ELSE <<>>

CountTagsNoElse(s, tag_val) ==
  IF Contains(LIT_nib_sale, tag_val) THEN [s EXCEPT !.nib_sale = @ + 1]
  ELSE IF tag_val = LIT_nib \/ Contains(LIT_sp_nib_sp, <<" ">> \o tag_val \o <<" ">>)
       THEN [s EXCEPT !.nib = @ + 1]
  ELSE IF tag_val \in TAG_ZERO THEN [s EXCEPT !.zero = @ + 1]
  ELSE IF tag_val = <<>> THEN [s EXCEPT !.empty_tag = @ + 1]
  ELSE s

CountTags(s, tag_val) ==
  IF Contains(LIT_nib_sale, tag_val) THEN [s EXCEPT !.nib_sale = @ + 1]
  ELSE IF tag_val = LIT_nib \/ Contains(LIT_sp_nib_sp, <<" ">> \o tag_val \o <<" ">>)
       THEN [s EXCEPT !.nib = @ + 1]
  ELSE IF tag_val \in TAG_ZERO THEN [s EXCEPT !.zero = @ + 1]
  ELSE IF tag_val = <<>> THEN [s EXCEPT !.empty_tag = @ + 1]
  ELSE [s EXCEPT !.other_tag = @ + 1]

CountRedMarker(s, row) ==
  IF Contains(LIT_krasn, RowText(row)) THEN [s EXCEPT !.red = @ + 1] ELSE s

\* lines 298-333: a row of the normal zone
CountNormalRow(ix, s, row) ==
  CountRedMarker(
    CountTags(
      CountAccept(ix,
        CountContract(ix,
          CountOpf([s EXCEPT !.total = @ + 1], OpfText(ix, row)), row), row),
      TagVal(ix, row)), row)

\* lines 275-279: is the manager cell empty
IsEmptyManager(manager_raw) == manager_raw = <<>> \/ strip(manager_raw) = <<>>

\* lines 283-285: the rows skipped after the empty test
IsSkippedManager(manager) == manager = None \/ lower(manager) = LIT_manager

\* lines 277-278
RedAfterEmpty(red, empties) == IF empties >= RED_GAP_ROWS THEN TRUE ELSE red

EmptiesAfterManagerKeep(empties) == empties

\* line 281
EmptiesAfterManager(empties) == 0

\* lines 294-296 and 298-333: a row with a valid manager
CountManagerRowNoRed(ix, red, s, row) == CountNormalRow(ix, s, row)

CountManagerRow(ix, red, s, row) ==
  IF red THEN [s EXCEPT !.red = @ + 1] ELSE CountNormalRow(ix, s, row)

\* One iteration of the loop of lines 271-333.  sc is the loop's state:
\* [stats, is_red_section, consecutive_empty_rows].
ScanRow(ix, sc, row) ==
  LET manager_raw == Cell(row, ix.man) IN
  IF IsEmptyManager(manager_raw)
  THEN [sc EXCEPT !.consecutive_empty_rows = @ + 1,
                  !.is_red_section =
                     RedAfterEmpty(@, sc.consecutive_empty_rows + 1)]
  ELSE LET sc0 == [sc EXCEPT !.consecutive_empty_rows = EmptiesAfterManager(@)]
           manager == normalize_name(manager_raw)
       IN IF IsSkippedManager(manager) THEN sc0
          ELSE LET st1 == IF manager \in DOMAIN sc0.stats THEN sc0.stats
                          ELSE [m \in DOMAIN sc0.stats \cup {manager} |->
                                  IF m = manager THEN NewStats ELSE sc0.stats[m]]
               IN [sc0 EXCEPT !.stats =
                     [st1 EXCEPT ![manager] =
                        CountManagerRow(ix, sc0.is_red_section, st1[manager], row)]]

-----------------------------------------------------------------------------
(* analyze_single_sheet: the result rows (lines 335-344) *)

\* A cell of a result row or of the report grid.  k is "s" for a str (in s),
\* "i" for an int (in n) and "f" for a float, held as the fraction n/d in
\* lowest terms.
StrCell(s) == [k |-> "s", s |-> s, n |-> 0, d |-> 0]
IntCell(n) == [k |-> "i", s |-> <<>>, n |-> n, d |-> 0]

RECURSIVE Gcd(_, _)
Gcd(a, b) == IF b = 0 THEN a ELSE Gcd(b, a % b)

FloatCell(a, b) == [k |-> "f", s |-> <<>>, n |-> a \div Gcd(a, b), d |-> b \div Gcd(a, b)]

PercentOfContract(s) ==
  IF s.total > 0 THEN FloatCell(s.contract, s.total) ELSE IntCell(0)

\* line 337
Percent(s) == IF s.total > 0 THEN FloatCell(s.accept, s.total) ELSE IntCell(0)

ResultRow(m, s) ==
  <<StrCell(m), IntCell(s.total), IntCell(s.ip), IntCell(s.too),
    IntCell(s.contract), IntCell(s.accept), Percent(s), IntCell(s.nib_sale),
    IntCell(s.nib), IntCell(s.zero), IntCell(s.empty_tag),
    IntCell(s.other_tag), IntCell(s.red)>>

\* the managers of st in ascending order of str (line 343)
RECURSIVE SortedNames(_)
SortedNames(S) ==
  IF S = {} THEN <<>>
  ELSE LET m == CHOOSE x \in S : \A y \in S \ {x} : StrLess(x, y)
       IN <<m>> \o SortedNames(S \ {m})

BuildResult(st) ==
  LET names == SortedNames(DOMAIN st)
  IN [k \in DOMAIN names |-> ResultRow(names[k], st[names[k]])]

-----------------------------------------------------------------------------
(* The scan as a state machine: the rows of a sheet are scanned one by one *)

MaxRows == 7          \* data rows of a scanned sheet

S_Manager == <<"#M", "#e", "#n", "#e", "#d", "#zh", "#e", "#r">>
S_Opf == <<"#O", "#P", "#F">>
S_Dogovor == <<"#D", "#o", "#g", "#o", "#v", "#o", "#r">>
S_Akcept == <<"#A", "#k", "#c", "#e", "#p", "#t">>
S_Metki == <<"#M", "#e", "#t", "#k", "#i">>

S_Ivanov == <<"#I", "#v", "#a", "#n", "#o", "#v">>
S_petrov_sp == <<"#p", "#e", "#t", "#r", "#o", "#v", " ">>
S_PETROV == <<"#P", "#E", "#T", "#R", "#O", "#V">>
S_Petrov == <<"#P", "#e", "#t", "#r", "#o", "#v">>

\* the header rows of the scanned sheets (row 0 names the manager column)
HeaderRows == {<<S_Manager, S_Opf, S_Dogovor, S_Akcept, S_Metki>>}

\* The data rows a scanned sheet is made of: a sheet takes its rows from one
\* of the two menus.
RowMenuA ==
  { <<>>,
    <<S_Ivanov, <<"#T", "#O", "#O", " ", "X">>, <<"#d", "#o", "#g", "#o", "#v", "#o", "#r">>,
      <<"#o", "#p", "#l", "#a", "#t", "#a", " ", "#p", "#r", "#o", "#sh", "#l", "#a">>,
      <<"n", "i", "b">>>>,
    <<S_petrov_sp, <<"#I", "#P", " ", "Y">>, <<"#--">>, <<"#n", "#e", "#t">>,
      <<"N", "I", "B", "_", "S", "A", "L", "E", "_", "2", "0", "2", "4">>>>,
    <<S_PETROV, <<>>, <<"0">>, <<"#o", "#t", "#k", "#a", "#z">>, <<"0", ".", "0">>>> }

RowMenuB ==
  { <<<<" ", " ">>, <<"#T", "#O", "#O">>>>,
    <<S_Ivanov, <<>>, <<>>, <<"#o", "#k">>,
      <<"#k", "#r", "#a", "#s", "#n", "#y", "#j">>>>,
    <<S_Ivanov>>,
    <<S_Manager, S_Opf>> }

RowMenus == {RowMenuA, RowMenuB}

ScanState == [stats |-> stats, is_red_section |-> is_red_section,
              consecutive_empty_rows |-> consecutive_empty_rows]

ScanIdle ==
  /\ data = <<>> /\ idx = <<>> /\ stats = <<>> /\ is_red_section = FALSE
  /\ consecutive_empty_rows = 0 /\ scan_pc = "off" /\ result = <<>>
  /\ source_titles_lower = <<>> /\ asked_name = <<>> /\ real_name = None

ScanStart ==
  /\ data \in {<<h>> : h \in HeaderRows}
  /\ idx = ResolveIdx(data)
  /\ stats = << >>
  /\ is_red_section = FALSE
  /\ consecutive_empty_rows = 0
  /\ scan_pc = "scan"
  /\ result = <<>>
  /\ source_titles_lower = <<>> /\ asked_name = <<>> /\ real_name = None

\* one iteration of the loop over the next row of the sheet
ScanNextRow ==
  /\ scan_pc = "scan"
  /\ Len(data) < MaxRows + 1
  /\ \E menu \in RowMenus : \E row \in menu :
       LET sc == ScanRow(idx, ScanState, row) IN
       /\ \A k \in 2..Len(data) : data[k] \in menu
       /\ data' = Append(data, row)
       /\ stats' = sc.stats
       /\ is_red_section' = sc.is_red_section
       /\ consecutive_empty_rows' = sc.consecutive_empty_rows
  /\ UNCHANGED <<idx, scan_pc, result, source_titles_lower, asked_name, real_name>>
  /\ UNCHANGED <<bo_vars, sync_vars>>

\* the end of the sheet: lines 335-344
ScanFinish ==
  /\ scan_pc = "scan"
  /\ Len(data) >= 2
  /\ result' = BuildResult(stats)
  /\ scan_pc' = "done"
  /\ UNCHANGED <<data, idx, stats, is_red_section, consecutive_empty_rows>>
  /\ UNCHANGED <<source_titles_lower, asked_name, real_name, bo_vars, sync_vars>>


-----------------------------------------------------------------------------
(* api_call_with_backoff (lines 121-133) *)

max_retries == 8
base_sleep == 1

RETRY_STATUSES == {429, 500, 503}

\* what an invocation of fn may do: return, raise HttpError with a status,
\* or raise another exception
FnOutcomes ==
  {[kind |-> "ok", status |-> 200], [kind |-> "exc", status |-> 0]}
    \cup {[kind |-> "http", status |-> s] :
            s \in {400, 403, 429, 500, 502, 503, 504}}

RECURSIVE Pow2(_)
Pow2(n) == IF n = 0 THEN 1 ELSE 2 * Pow2(n - 1)

IsRetriedAlways(o) == o.kind = "http"

\* line 127: the failure is retried
IsRetried(o) == o.kind = "http" /\ o.status \in RETRY_STATUSES

\* line 128
SleepTime(n) == base_sleep * Pow2(n)

BackoffIdle == attempt = 0 /\ fn_calls = <<>> /\ sleeps = <<>> /\ bo_pc = "off"

BackoffStart == attempt = 0 /\ fn_calls = <<>> /\ sleeps = <<>> /\ bo_pc = "loop"

\* one iteration of the loop: fn returns
BackoffReturn ==
  /\ bo_pc = "loop" /\ attempt < max_retries
  /\ fn_calls' = Append(fn_calls, [kind |-> "ok", status |-> 200])
  /\ bo_pc' = "returned"
  /\ UNCHANGED <<attempt, sleeps, scan_vars, sync_vars>>

\* one iteration of the loop: fn raises
BackoffFailure ==
  /\ bo_pc = "loop" /\ attempt < max_retries
  /\ \E o \in FnOutcomes :
       /\ o.kind # "ok"
       /\ fn_calls' = Append(fn_calls, o)
       /\ IF IsRetried(o)
          THEN /\ sleeps' = Append(sleeps, SleepTime(attempt))
               /\ attempt' = attempt + 1
               /\ bo_pc' = "loop"
          ELSE /\ bo_pc' = IF o.kind = "http" THEN "raised_http" ELSE "raised_other"
               /\ UNCHANGED <<attempt, sleeps>>
  /\ UNCHANGED <<scan_vars, sync_vars>>

\* line 133: the loop is over
BackoffExhausted ==
  /\ bo_pc = "loop" /\ attempt = max_retries
  /\ bo_pc' = "raised_runtime"
  /\ UNCHANGED <<attempt, fn_calls, sleeps, scan_vars, sync_vars>>

-----------------------------------------------------------------------------
(* What a scanned sheet says, row by row, read off the rows themselves *)

\* the manager cell of row p (a position of data) holds nothing but spaces
BlankManagerAt(d, ix, p) ==
  LET c == Cell(d[p], ix.man) IN \A k \in DOMAIN c : c[k] = " "

\* a run of RED_GAP_ROWS consecutive rows with a blank manager cell ends at p
GapEndsAt(d, ix, p) ==
  /\ p - RED_GAP_ROWS + 1 >= 2
  /\ \A j \in (p - RED_GAP_ROWS + 1)..p : BlankManagerAt(d, ix, j)

\* row p comes after such a run
AfterGap(d, ix, p) == \E q \in 2..(p - 1) : GapEndsAt(d, ix, q)

GapSeen(d, ix) == \E q \in 2..Len(d) : GapEndsAt(d, ix, q)

\* the rows of manager m scanned in the normal zone
NormalRowsOf(d, ix, m) ==
  {p \in 2..Len(d) : /\ ~BlankManagerAt(d, ix, p)
                     /\ normalize_name(Cell(d[p], ix.man)) = m
                     /\ ~AfterGap(d, ix, p)}

TagSum(s) == s.nib_sale + s.nib + s.zero + s.empty_tag + s.other_tag

\* C1: after the scan of any sequence of data rows, every manager of the
\* result has total = the number of its rows scanned in the normal zone, and
\* nib_sale + nib + zero + empty + other = total (and so have the counters
\* the result is built from, all along the scan).
C1_TotalAndTagPartition ==
  /\ \A m \in DOMAIN stats :
       /\ stats[m].total = Cardinality(NormalRowsOf(data, idx, m))
       /\ TagSum(stats[m]) = stats[m].total
  /\ scan_pc = "done" =>
       /\ Len(result) = Cardinality(DOMAIN stats)
       /\ \A k \in DOMAIN result :
            /\ result[k][1].s \in DOMAIN stats
            /\ result[k][2].n = Cardinality(NormalRowsOf(data, idx, result[k][1].s))
            /\ result[k][8].n + result[k][9].n + result[k][10].n
                 + result[k][11].n + result[k][12].n = result[k][2].n

\* a finished scan with a manager that has rows on both sides of the gap, and
\* one with a row in the 'other' bucket
C1_Witness ==
  /\ scan_pc = "done"
  /\ \E k \in DOMAIN result :
       /\ result[k][2].n >= 1
       /\ \E p \in 2..Len(data) :
            /\ AfterGap(data, idx, p)
            /\ normalize_name(Cell(data[p], idx.man)) = result[k][1].s

C1_WitnessBuckets ==
  /\ scan_pc = "done"
  /\ \E k \in DOMAIN result : result[k][12].n >= 1 /\ result[k][11].n >= 1

\* the row just scanned names a manager that is counted
ValidManagerRow(row, ix) ==
  /\ ~IsEmptyManager(Cell(row, ix.man))
  /\ ~IsSkippedManager(normalize_name(Cell(row, ix.man)))

StatsOf(st, m) == IF m \in DOMAIN st THEN st[m] ELSE NewStats

\* C2: RED-ZONE is terminal.  Once a run of RED_GAP_ROWS rows with an empty
\* manager cell has been scanned, the scan of any later row with a valid
\* manager cell adds 1 to that manager's red counter and changes nothing else
\* (no total, ip, too, contract, accept, tag bucket; no other manager), and the
\* scan stays in the red zone although the empty-row counter is back to 0.
C2_RedZoneTerminal ==
  [][ (scan_pc = "scan" /\ GapSeen(data, idx) /\ Len(data') = Len(data) + 1
         /\ ValidManagerRow(data'[Len(data')], idx))
      => LET m == normalize_name(Cell(data'[Len(data')], idx.man)) IN
         /\ stats'[m] = [StatsOf(stats, m) EXCEPT !.red = @ + 1]
         /\ \A o \in DOMAIN stats' \ {m} : o \in DOMAIN stats /\ stats'[o] = stats[o]
         /\ is_red_section /\ is_red_section'
         /\ consecutive_empty_rows' = 0 ]_vars

\* a manager row scanned after the gap, after another manager row had already
\* reset the empty-row counter
C2_Witness ==
  /\ GapSeen(data, idx)
  /\ consecutive_empty_rows = 0
  /\ \E p \in 3..Len(data) :
       /\ AfterGap(data, idx, p) /\ AfterGap(data, idx, p - 1)
       /\ ValidManagerRow(data[p], idx) /\ ValidManagerRow(data[p - 1], idx)
  /\ \E m \in DOMAIN stats : stats[m].red >= 1

\* C15: in every result row the accept ratio is accept/total when total > 0
\* and the int 0 when total = 0 (a manager seen in the red zone only; nothing
\* is divided there), and accept, ip, too and contract are at most total, all
\* along the scan, so the ratio lies in 0..1.
C15_AcceptRatio ==
  /\ \A m \in DOMAIN stats :
       /\ stats[m].accept <= stats[m].total /\ stats[m].ip <= stats[m].total
       /\ stats[m].too <= stats[m].total /\ stats[m].contract <= stats[m].total
  /\ scan_pc = "done" =>
       \A k \in DOMAIN result :
         LET total == result[k][2].n
             accept == result[k][6].n
             ratio == result[k][7]
         IN /\ result[k][3].n <= total /\ result[k][4].n <= total
            /\ result[k][5].n <= total /\ accept <= total
            /\ IF total > 0
               THEN /\ ratio.k = "f" /\ ratio.d > 0
                    /\ ratio.n * total = accept * ratio.d
                    /\ 0 <= ratio.n /\ ratio.n <= ratio.d
               ELSE ratio = IntCell(0)

\* a result with a manager seen below the gap only: total 0, ratio 0
C15_Witness ==
  /\ scan_pc = "done"
  /\ \E k \in DOMAIN result :
       /\ result[k][2].n = 0 /\ result[k][13].n >= 1
       /\ result[k][7] = IntCell(0)

\* a result with a ratio strictly between 0 and 1
C15_WitnessFraction ==
  /\ scan_pc = "done"
  /\ \E k \in DOMAIN result :
       /\ result[k][7].k = "f"
       /\ 0 < result[k][7].n /\ result[k][7].n < result[k][7].d

\* the rows of d with a blank manager cell
BlankRows(d, ix) == {p \in 2..Len(d) : BlankManagerAt(d, ix, p)}

\* C17: the scan is in the red zone only when a run of RED_GAP_ROWS
\* consecutive rows with an empty manager cell has been scanned; until then a
\* row with a valid manager cell adds 1 to that manager's total, sets the
\* empty-row counter back to 0 and leaves the scan in the normal zone, so
\* shorter runs never add up across rows with a manager.
C17_RedZoneOnlyByThreshold ==
  /\ [](is_red_section => GapSeen(data, idx))
  /\ [](consecutive_empty_rows >= RED_GAP_ROWS => GapSeen(data, idx))
  /\ [][ (scan_pc = "scan" /\ ~GapSeen(data, idx) /\ Len(data') = Len(data) + 1
           /\ ValidManagerRow(data'[Len(data')], idx))
        => LET m == normalize_name(Cell(data'[Len(data')], idx.man)) IN
           /\ stats'[m].total = StatsOf(stats, m).total + 1
           /\ stats'[m].red = StatsOf(stats, m).red
                  + (IF Contains(LIT_krasn, RowText(data'[Len(data')])) THEN 1 ELSE 0)
           /\ ~is_red_section'
           /\ consecutive_empty_rows' = 0 ]_vars

\* RED_GAP_ROWS rows with an empty manager cell have been scanned, in runs
\* shorter than RED_GAP_ROWS, and the manager row just scanned was counted in
\* the normal zone
C17_Witness ==
  /\ scan_pc = "scan" /\ ~is_red_section
  /\ Cardinality(BlankRows(data, idx)) >= RED_GAP_ROWS
  /\ ValidManagerRow(data[Len(data)], idx)
  /\ consecutive_empty_rows = 0
  /\ stats[normalize_name(Cell(data[Len(data)], idx.man))].total >= 2

-----------------------------------------------------------------------------
(* Claims about api_call_with_backoff *)

\* rate-limit or server-error class: HTTP 429 or any 5xx
IsTransientClass(o) == o.kind = "http" /\ (o.status = 429 \/ o.status \in 500..599)

\* another transport failure: a 4xx status other than 429 (permission,
\* malformed request, not found)
IsOtherFailure(o) == o.kind = "http" /\ o.status \in (400..499) \ {429}

\* C8: every failure of rate-limit or server-error class (429 or any 5xx) is
\* retried, after a sleep of base_sleep * 2^attempt; fn is invoked at most
\* max_retries times; the first success is returned; and when all attempts
\* failed this way the call ends with the 'too many retries' error.
C8_RetriesEveryTransientFailure ==
  /\ Len(fn_calls) <= max_retries
  /\ \A k \in DOMAIN sleeps : sleeps[k] = base_sleep * Pow2(k - 1)
  /\ \A k \in DOMAIN fn_calls :
       IsTransientClass(fn_calls[k]) => (k <= Len(sleeps) /\ bo_pc # "raised_http")
  /\ bo_pc = "returned" =>
       /\ fn_calls[Len(fn_calls)].kind = "ok"
       /\ \A k \in 1..(Len(fn_calls) - 1) : fn_calls[k].kind # "ok"
  /\ bo_pc = "raised_runtime" =>
       /\ Len(fn_calls) = max_retries
       /\ \A k \in DOMAIN fn_calls : IsTransientClass(fn_calls[k])

\* C9: a failure that is not transient (permission, malformed request) is
\* propagated at once: it is the last invocation of fn, the call has raised
\* it, and no sleep follows it, however many attempts remain.
C9_OtherFailurePropagates ==
  \A k \in DOMAIN fn_calls :
    IsOtherFailure(fn_calls[k]) =>
      /\ k = Len(fn_calls)
      /\ bo_pc = "raised_http"
      /\ Len(sleeps) = k - 1

\* a permission failure after two retried failures, with attempts left
C9_Witness ==
  /\ bo_pc = "raised_http"
  /\ Len(fn_calls) = 3 /\ Len(sleeps) = 2 /\ attempt < max_retries - 1
  /\ fn_calls[3].status = 403

-----------------------------------------------------------------------------
(* find_sheet_smart and the whole of analyze_single_sheet *)

\* re.sub(r"\s+", "", s)
RemoveSpaces(s) == SelectSeq(s, LAMBDA c : ~IsSpace(c))

\* get_sheet_titles_lower: the dict lower-cased title -> title, in the order
\* of the sheets, as a sequence of pairs
TitlesLower(titles) == [k \in DOMAIN titles |-> [low |-> lower(titles[k]), real |-> titles[k]]]

\* the loop of lines 231-234 alone
find_sheet_smartFuzzyOnly(titles_lower, partial_name) ==
  IF partial_name = <<>> THEN None
  ELSE LET search_clean == RemoveSpaces(lower(strip(partial_name)))
           fuzzy(k) == LET clean == RemoveSpaces(titles_lower[k].low)
                       IN Contains(search_clean, clean) \/ Contains(clean, search_clean)
       IN IF \E k \in DOMAIN titles_lower : fuzzy(k)
          THEN titles_lower[CHOOSE k \in DOMAIN titles_lower :
                              fuzzy(k) /\ \A j \in 1..(k - 1) : ~fuzzy(j)].real
          ELSE None

find_sheet_smart(titles_lower, partial_name) ==
  IF partial_name = <<>> THEN None
  ELSE LET search == lower(strip(partial_name))
           search_clean == RemoveSpaces(search)
           exact(k) == titles_lower[k].low = search
           fuzzy(k) == LET clean == RemoveSpaces(titles_lower[k].low)
                       IN Contains(search_clean, clean) \/ Contains(clean, search_clean)
       IN IF \E k \in DOMAIN titles_lower : exact(k)
          THEN titles_lower[CHOOSE k \in DOMAIN titles_lower : exact(k)].real
          ELSE IF \E k \in DOMAIN titles_lower : fuzzy(k)
          THEN titles_lower[CHOOSE k \in DOMAIN titles_lower :
                              fuzzy(k) /\ \A j \in 1..(k - 1) : ~fuzzy(j)].real
          ELSE None

DIAG_no_sheet == <<"#N", "#e", "#t", " ", "#l", "#i", "#s", "#t", "#a", " ", "(", "#p", "#u", "#s", "#t", "#o", " ", "#v", " ", "S", "e", "t", "t", "i", "n", "g", "s", ")">>
DIAG_not_found_1 == <<"#xx", " ", "#L", "#i", "#s", "#t", " ", "\"">>
DIAG_not_found_2 == <<"\"", " ", "#n", "#e", " ", "#n", "#a", "#j", "#d", "#e", "#n">>
DIAG_empty == <<"#L", "#i", "#s", "#t", " ", "#p", "#u", "#s", "#t">>
DIAG_no_manager == <<"#N", "#e", " ", "#n", "#a", "#j", "#d", "#e", "#n", "#a", " ", "#k", "#o", "#l", "#o", "#n", "#k", "#a", " ", "\"", "#M", "#e", "#n", "#e", "#d", "#zh", "#e", "#r", "\"">>

\* a one-cell diagnostic result
Diag(text) == <<<<StrCell(text)>>>>

\* the loop of lines 271-333 over the rows p..len(d) of d
RECURSIVE ScanRows(_, _, _, _)
ScanRows(ix, sc, d, p) ==
  IF p > Len(d) THEN sc ELSE ScanRows(ix, ScanRow(ix, sc, d[p]), d, p + 1)

\* lines 247-344: the analysis of the rows read from the sheet
AnalyzeData(d) ==
  IF Len(d) < 2 THEN Diag(DIAG_empty)
  ELSE LET ix == ResolveIdx(d) IN
       IF ix.man = -1 THEN Diag(DIAG_no_manager)
       ELSE BuildResult(
              ScanRows(ix, [stats |-> << >>, is_red_section |-> FALSE,
                            consecutive_empty_rows |-> 0], d, 2).stats)

\* lines 239-244: does analyze_single_sheet read the sheet at all
ReadsSheet(titles_lower, sheet_name) ==
  sheet_name # <<>> /\ find_sheet_smart(titles_lower, sheet_name) # None

\* analyze_single_sheet, d being what read_values returns for the sheet
analyze_single_sheet(titles_lower, sheet_name, d) ==
  IF sheet_name = <<>> THEN Diag(DIAG_no_sheet)
  ELSE IF find_sheet_smart(titles_lower, sheet_name) = None
  THEN Diag(DIAG_not_found_1 \o sheet_name \o DIAG_not_found_2)
  ELSE AnalyzeData(d)

-----------------------------------------------------------------------------
(* build_report_values, compute_hash, state_path *)

HEADERS ==
  <<<<"#M", "#e", "#n", "#e", "#d", "#zh", "#e", "#r", "#y">>,
    <<"#O", "#f", "#f", "#e", "#r", "#t", "#y", " ", "#v", "#s", "#e", "#g", "#o">>,
    <<"#I", "#P">>,
    <<"#T", "#O", "#O">>,
    <<"#D", "#o", "#g", "#o", "#v", "#o", "#r", " ", "#e", "#s", "#t", "#q">>,
    <<"#A", "#k", "#c", "#e", "#p", "#t", "/", "#O", "#p", "#l", "#a", "#t", "#a">>,
    <<"#A", "#k", "#c", "#e", "#p", "#t", " ", "%">>,
    <<"#M", "#e", "#t", "#k", "#a", " ", "n", "i", "b", "_", "s", "a", "l", "e", "s">>,
    <<"#M", "#e", "#t", "#k", "#a", " ", "n", "i", "b">>,
    <<"#M", "#e", "#t", "#k", "#a", " ", "0">>,
    <<"#P", "#u", "#s", "#t", "#o">>,
    <<"#D", "#r", "#u", "#g", "#o", "#e">>,
    <<"#K", "#r", "#a", "#s", "#n", "#y", "#e">>>>

TITLE_our == <<"#N", "#A", "#SH", "#A", " ", "#S", "#E", "#T", "#K", "#A", " ", "(">>
TITLE_yandex == <<"#YA", "#N", "#D", "#E", "#K", "#S", " ", "#S", "#E", "#T", "#K", "#A", " ", "(">>
REPORT_prefix == <<"#S", "#v", "#o", "#d", "#n", "#a", "#ya", " ", "-", " ">>
STATE_prefix == <<"/", "t", "m", "p", "/", "s", "u", "m", "m", "a", "r", "y", "_", "s", "t", "a", "t", "e", "_">>
STATE_suffix == <<".", "j", "s", "o", "n">>

\* [""] * n
Blanks(n) == [k \in 1..n |-> StrCell(<<>>)]

\* lines 521-524: a one-cell result becomes one row of 13 cells
PadDiagNone(rows) == rows

PadDiag(rows) ==
  IF rows # <<>> /\ Len(rows[1]) = 1 THEN <<rows[1] \o Blanks(12)>> ELSE rows

build_report_values(our_title, our_rows, yandex_title, yandex_rows) ==
  <<<<StrCell(our_title)>> \o Blanks(12)>>
    \o <<[k \in DOMAIN HEADERS |-> StrCell(HEADERS[k])]>>
    \o our_rows
    \o [k \in 1..5 |-> Blanks(13)]
    \o <<<<StrCell(yandex_title)>> \o Blanks(12)>>
    \o <<[k \in DOMAIN HEADERS |-> StrCell(HEADERS[k])]>>
    \o yandex_rows

\* lines 555-557: the rows batch_format_report is given
FormatArgs(our_rows, yandex_rows) ==
  [our_rows |-> 2 + Len(our_rows),
   yandex_start_row |-> (2 + Len(our_rows)) + 5,
   yandex_rows |-> 2 + Len(yandex_rows)]

\* f"... ({sheet_name or '-'})"
Title(prefix, sheet_name) ==
  prefix \o (IF sheet_name = <<>> THEN <<"-">> ELSE sheet_name) \o <<")">>

\* lines 514-515
ReportSheetName(our_sheet_name, yandex_sheet_name) ==
  REPORT_prefix \o strip(IF our_sheet_name # <<>> THEN our_sheet_name ELSE yandex_sheet_name)

\* lines 520-531: the grid of a report
ReportValues(our_sheet_name, our_rows, yandex_sheet_name, yandex_rows) ==
  build_report_values(Title(TITLE_our, our_sheet_name), PadDiag(our_rows),
                      Title(TITLE_yandex, yandex_sheet_name), PadDiag(yandex_rows))

\* json.dumps of an int
RECURSIVE IntRepr(_)
IntRepr(n) ==
  IF n < 10 THEN <<Digits[n + 1]>> ELSE IntRepr(n \div 10) \o <<Digits[(n % 10) + 1]>>

\* repr of the double n/d, for the ratios n/d in lowest terms with
\* 0 < n < d <= 16
FloatReprTable ==
  <<1, 2>> :> <<"0", ".", "5">>
  @@ <<1, 3>> :> <<"0", ".", "3", "3", "3", "3", "3", "3", "3", "3", "3", "3", "3", "3", "3", "3", "3", "3">>
  @@ <<2, 3>> :> <<"0", ".", "6", "6", "6", "6", "6", "6", "6", "6", "6", "6", "6", "6", "6", "6", "6", "6">>
  @@ <<1, 4>> :> <<"0", ".", "2", "5">>
  @@ <<3, 4>> :> <<"0", ".", "7", "5">>
  @@ <<1, 5>> :> <<"0", ".", "2">>
  @@ <<2, 5>> :> <<"0", ".", "4">>
  @@ <<3, 5>> :> <<"0", ".", "6">>
  @@ <<4, 5>> :> <<"0", ".", "8">>
  @@ <<1, 6>> :> <<"0", ".", "1", "6", "6", "6", "6", "6", "6", "6", "6", "6", "6", "6", "6", "6", "6", "6", "6">>
  @@ <<5, 6>> :> <<"0", ".", "8", "3", "3", "3", "3", "3", "3", "3", "3", "3", "3", "3", "3", "3", "3", "4">>
  @@ <<1, 7>> :> <<"0", ".", "1", "4", "2", "8", "5", "7", "1", "4", "2", "8", "5", "7", "1", "4", "2", "8", "5">>
  @@ <<2, 7>> :> <<"0", ".", "2", "8", "5", "7", "1", "4", "2", "8", "5", "7", "1", "4", "2", "8", "5", "7">>
  @@ <<3, 7>> :> <<"0", ".", "4", "2", "8", "5", "7", "1", "4", "2", "8", "5", "7", "1", "4", "2", "8", "5", "5">>
  @@ <<4, 7>> :> <<"0", ".", "5", "7", "1", "4", "2", "8", "5", "7", "1", "4", "2", "8", "5", "7", "1", "4">>
  @@ <<5, 7>> :> <<"0", ".", "7", "1", "4", "2", "8", "5", "7", "1", "4", "2", "8", "5", "7", "1", "4", "3">>
  @@ <<6, 7>> :> <<"0", ".", "8", "5", "7", "1", "4", "2", "8", "5", "7", "1", "4", "2", "8", "5", "7", "1">>
  @@ <<1, 8>> :> <<"0", ".", "1", "2", "5">>
  @@ <<3, 8>> :> <<"0", ".", "3", "7", "5">>
  @@ <<5, 8>> :> <<"0", ".", "6", "2", "5">>
  @@ <<7, 8>> :> <<"0", ".", "8", "7", "5">>
  @@ <<1, 9>> :> <<"0", ".", "1", "1", "1", "1", "1", "1", "1", "1", "1", "1", "1", "1", "1", "1", "1", "1">>
  @@ <<2, 9>> :> <<"0", ".", "2", "2", "2", "2", "2", "2", "2", "2", "2", "2", "2", "2", "2", "2", "2", "2">>
  @@ <<4, 9>> :> <<"0", ".", "4", "4", "4", "4", "4", "4", "4", "4", "4", "4", "4", "4", "4", "4", "4", "4">>
  @@ <<5, 9>> :> <<"0", ".", "5", "5", "5", "5", "5", "5", "5", "5", "5", "5", "5", "5", "5", "5", "5", "6">>
  @@ <<7, 9>> :> <<"0", ".", "7", "7", "7", "7", "7", "7", "7", "7", "7", "7", "7", "7", "7", "7", "7", "8">>
  @@ <<8, 9>> :> <<"0", ".", "8", "8", "8", "8", "8", "8", "8", "8", "8", "8", "8", "8", "8", "8", "8", "8">>
  @@ <<1, 10>> :> <<"0", ".", "1">>
  @@ <<3, 10>> :> <<"0", ".", "3">>
  @@ <<7, 10>> :> <<"0", ".", "7">>
  @@ <<9, 10>> :> <<"0", ".", "9">>
  @@ <<1, 11>> :> <<"0", ".", "0", "9", "0", "9", "0", "9", "0", "9", "0", "9", "0", "9", "0", "9", "0", "9", "1">>
  @@ <<2, 11>> :> <<"0", ".", "1", "8", "1", "8", "1", "8", "1", "8", "1", "8", "1", "8", "1", "8", "1", "8", "2">>
  @@ <<3, 11>> :> <<"0", ".", "2", "7", "2", "7", "2", "7", "2", "7", "2", "7", "2", "7", "2", "7", "2", "7">>
  @@ <<4, 11>> :> <<"0", ".", "3", "6", "3", "6", "3", "6", "3", "6", "3", "6", "3", "6", "3", "6", "3", "6", "5">>
  @@ <<5, 11>> :> <<"0", ".", "4", "5", "4", "5", "4", "5", "4", "5", "4", "5", "4", "5", "4", "5", "4", "5", "3">>
  @@ <<6, 11>> :> <<"0", ".", "5", "4", "5", "4", "5", "4", "5", "4", "5", "4", "5", "4", "5", "4", "5", "4">>
  @@ <<7, 11>> :> <<"0", ".", "6", "3", "6", "3", "6", "3", "6", "3", "6", "3", "6", "3", "6", "3", "6", "4">>
  @@ <<8, 11>> :> <<"0", ".", "7", "2", "7", "2", "7", "2", "7", "2", "7", "2", "7", "2", "7", "2", "7", "3">>
  @@ <<9, 11>> :> <<"0", ".", "8", "1", "8", "1", "8", "1", "8", "1", "8", "1", "8", "1", "8", "1", "8", "2">>
  @@ <<10, 11>> :> <<"0", ".", "9", "0", "9", "0", "9", "0", "9", "0", "9", "0", "9", "0", "9", "0", "9", "1">>
  @@ <<1, 12>> :> <<"0", ".", "0", "8", "3", "3", "3", "3", "3", "3", "3", "3", "3", "3", "3", "3", "3", "3", "3">>
  @@ <<5, 12>> :> <<"0", ".", "4", "1", "6", "6", "6", "6", "6", "6", "6", "6", "6", "6", "6", "6", "6", "7">>
  @@ <<7, 12>> :> <<"0", ".", "5", "8", "3", "3", "3", "3", "3", "3", "3", "3", "3", "3", "3", "3", "3", "4">>
  @@ <<11, 12>> :> <<"0", ".", "9", "1", "6", "6", "6", "6", "6", "6", "6", "6", "6", "6", "6", "6", "6", "6">>
  @@ <<1, 13>> :> <<"0", ".", "0", "7", "6", "9", "2", "3", "0", "7", "6", "9", "2", "3", "0", "7", "6", "9", "3">>
  @@ <<2, 13>> :> <<"0", ".", "1", "5", "3", "8", "4", "6", "1", "5", "3", "8", "4", "6", "1", "5", "3", "8", "5">>
  @@ <<3, 13>> :> <<"0", ".", "2", "3", "0", "7", "6", "9", "2", "3", "0", "7", "6", "9", "2", "3", "0", "7", "8">>
  @@ <<4, 13>> :> <<"0", ".", "3", "0", "7", "6", "9", "2", "3", "0", "7", "6", "9", "2", "3", "0", "7", "7">>
  @@ <<5, 13>> :> <<"0", ".", "3", "8", "4", "6", "1", "5", "3", "8", "4", "6", "1", "5", "3", "8", "4", "6", "4">>
  @@ <<6, 13>> :> <<"0", ".", "4", "6", "1", "5", "3", "8", "4", "6", "1", "5", "3", "8", "4", "6", "1", "5", "6">>
  @@ <<7, 13>> :> <<"0", ".", "5", "3", "8", "4", "6", "1", "5", "3", "8", "4", "6", "1", "5", "3", "8", "4">>
  @@ <<8, 13>> :> <<"0", ".", "6", "1", "5", "3", "8", "4", "6", "1", "5", "3", "8", "4", "6", "1", "5", "4">>
  @@ <<9, 13>> :> <<"0", ".", "6", "9", "2", "3", "0", "7", "6", "9", "2", "3", "0", "7", "6", "9", "2", "3">>
  @@ <<10, 13>> :> <<"0", ".", "7", "6", "9", "2", "3", "0", "7", "6", "9", "2", "3", "0", "7", "6", "9", "3">>
  @@ <<11, 13>> :> <<"0", ".", "8", "4", "6", "1", "5", "3", "8", "4", "6", "1", "5", "3", "8", "4", "6", "1">>
  @@ <<12, 13>> :> <<"0", ".", "9", "2", "3", "0", "7", "6", "9", "2", "3", "0", "7", "6", "9", "2", "3", "1">>
  @@ <<1, 14>> :> <<"0", ".", "0", "7", "1", "4", "2", "8", "5", "7", "1", "4", "2", "8", "5", "7", "1", "4", "2">>
  @@ <<3, 14>> :> <<"0", ".", "2", "1", "4", "2", "8", "5", "7", "1", "4", "2", "8", "5", "7", "1", "4", "2", "7">>
  @@ <<5, 14>> :> <<"0", ".", "3", "5", "7", "1", "4", "2", "8", "5", "7", "1", "4", "2", "8", "5", "7", "1", "5">>
  @@ <<9, 14>> :> <<"0", ".", "6", "4", "2", "8", "5", "7", "1", "4", "2", "8", "5", "7", "1", "4", "2", "9">>
  @@ <<11, 14>> :> <<"0", ".", "7", "8", "5", "7", "1", "4", "2", "8", "5", "7", "1", "4", "2", "8", "5", "7">>
  @@ <<13, 14>> :> <<"0", ".", "9", "2", "8", "5", "7", "1", "4", "2", "8", "5", "7", "1", "4", "2", "8", "6">>
  @@ <<1, 15>> :> <<"0", ".", "0", "6", "6", "6", "6", "6", "6", "6", "6", "6", "6", "6", "6", "6", "6", "6", "7">>
  @@ <<2, 15>> :> <<"0", ".", "1", "3", "3", "3", "3", "3", "3", "3", "3", "3", "3", "3", "3", "3", "3", "3", "3">>
  @@ <<4, 15>> :> <<"0", ".", "2", "6", "6", "6", "6", "6", "6", "6", "6", "6", "6", "6", "6", "6", "6", "6", "6">>
  @@ <<7, 15>> :> <<"0", ".", "4", "6", "6", "6", "6", "6", "6", "6", "6", "6", "6", "6", "6", "6", "6", "7">>
  @@ <<8, 15>> :> <<"0", ".", "5", "3", "3", "3", "3", "3", "3", "3", "3", "3", "3", "3", "3", "3", "3", "3">>
  @@ <<11, 15>> :> <<"0", ".", "7", "3", "3", "3", "3", "3", "3", "3", "3", "3", "3", "3", "3", "3", "3", "3">>
  @@ <<13, 15>> :> <<"0", ".", "8", "6", "6", "6", "6", "6", "6", "6", "6", "6", "6", "6", "6", "6", "6", "7">>
  @@ <<14, 15>> :> <<"0", ".", "9", "3", "3", "3", "3", "3", "3", "3", "3", "3", "3", "3", "3", "3", "3", "3">>
  @@ <<1, 16>> :> <<"0", ".", "0", "6", "2", "5">>
  @@ <<3, 16>> :> <<"0", ".", "1", "8", "7", "5">>
  @@ <<5, 16>> :> <<"0", ".", "3", "1", "2", "5">>
  @@ <<7, 16>> :> <<"0", ".", "4", "3", "7", "5">>
  @@ <<9, 16>> :> <<"0", ".", "5", "6", "2", "5">>
  @@ <<11, 16>> :> <<"0", ".", "6", "8", "7", "5">>
  @@ <<13, 16>> :> <<"0", ".", "8", "1", "2", "5">>
  @@ <<15, 16>> :> <<"0", ".", "9", "3", "7", "5">>

\* json.dumps of the float n/d (repr of the double), n/d in lowest terms
FloatRepr(n, d) ==
  IF d = 1 THEN IntRepr(n) \o <<".", "0">> ELSE FloatReprTable[<<n, d>>]

\* json.dumps of a str with ensure_ascii=False: " and \ escaped
JsonEscape(s) ==
  join(<<>>, [k \in DOMAIN s |->
                IF s[k] \in {"\"", "\\"} THEN <<"\\", s[k]>> ELSE <<s[k]>>])

JsonCell(c) ==
  IF c.k = "s" THEN <<"\"">> \o JsonEscape(c.s) \o <<"\"">>
  ELSE IF c.k = "i" THEN IntRepr(c.n)
  ELSE FloatRepr(c.n, c.d)

\* json.dumps(values, ensure_ascii=False, separators=(",", ":"))
JsonDumps(grid) ==
  <<"[">> \o join(<<",">>,
               [r \in DOMAIN grid |->
                  <<"[">> \o join(<<",">>, [k \in DOMAIN grid[r] |-> JsonCell(grid[r][k])])
                    \o <<"]">>])
    \o <<"]">>

\* The SHA-256 digest of the serialization.  The digest is taken to be
\* collision free: it is represented by the text it digests.
compute_hash(grid) == JsonDumps(grid)

\* [a-zA-Z0-9_.-]
SafeChars ==
  Range(AsciiLower) \cup Range(AsciiUpper) \cup Range(Digits) \cup {"_", ".", "-"}

IsSafeChar(c) == c \in SafeChars

\* re.sub(r"[^a-zA-Z0-9_.-]+", "_", s): every run of other characters -> "_"
SubUnsafe(s) ==
  join(<<>>, [k \in DOMAIN s |->
                IF IsSafeChar(s[k]) THEN <<s[k]>>
                ELSE IF k > 1 /\ ~IsSafeChar(s[k - 1]) THEN <<>>
                ELSE <<"_">>])

state_path(report_sheet_name) ==
  STATE_prefix \o SubUnsafe(report_sheet_name) \o STATE_suffix

-----------------------------------------------------------------------------
(* The state files, the cursor file and the destination sheets *)

MIN_WRITE_INTERVAL_SEC == 60
WORK_START_HOUR == 0
WORK_END_HOUR == 24
LOOP_SLEEP_SEC == 3

\* read_state: the file's content, or {} (no hash, last_write_ts read as 0)
read_state(fs, report_sheet_name) ==
  IF state_path(report_sheet_name) \in DOMAIN fs
  THEN fs[state_path(report_sheet_name)]
  ELSE [hash |-> None, last_write_ts |-> 0]

write_state(fs, report_sheet_name, state) ==
  [p \in DOMAIN fs \cup {state_path(report_sheet_name)} |->
     IF p = state_path(report_sheet_name) THEN state ELSE fs[p]]

read_cursor(cf) == IF cf = <<>> THEN 0 ELSE cf[1]

write_cursor(i) == <<i>>

in_work_window(hour) == WORK_START_HOUR <= hour /\ hour < WORK_END_HOUR

\* lines 581-587: the pairs of the Settings rows
RECURSIVE Pairs(_)
Pairs(rows) ==
  IF rows = <<>> THEN <<>>
  ELSE LET a == strip(Cell(rows[1], 0))
           b == strip(Cell(rows[1], 1))
       IN (IF a = <<>> /\ b = <<>> THEN <<>> ELSE <<[our |-> a, yandex |-> b]>>)
            \o Pairs(Tail(rows))

MaxOf(a, b) == IF a >= b THEN a ELSE b

\* lines 593-594
Chosen(pairs, st, n) ==
  [j \in 1..MaxOf(1, n) |-> pairs[((st + j - 1) % Len(pairs)) + 1]]

\* line 595
NextCursor(pairs, st, n) == (st + MaxOf(1, n)) % Len(pairs)

\* A sheet of the destination is the rows of its columns A..M down to the
\* last row that holds a value.
IsBlankRow(row) == row = Blanks(Len(row))

\* the last of the first n rows that holds a value, 0 if there is none
RECURSIVE LastFilled(_, _)
LastFilled(sheet, n) ==
  IF n > 0 /\ IsBlankRow(sheet[n]) THEN LastFilled(sheet, n - 1) ELSE n

TrimBlankRows(sheet) == SubSeq(sheet, 1, LastFilled(sheet, Len(sheet)))

\* clear_range on A1:M<rows>
ClearRange(sheet, rows) ==
  TrimBlankRows([j \in 1..Len(sheet) |-> IF j <= rows THEN Blanks(13) ELSE sheet[j]])

\* write_values on A1:M<rows>
WriteRange(sheet, vals) ==
  TrimBlankRows([j \in 1..MaxOf(Len(sheet), Len(vals)) |->
                   IF j <= Len(vals) THEN vals[j] ELSE sheet[j]])

GateDecisionNoThrottle(st, new_hash, t) ==
  IF st.hash = new_hash THEN "NO-CHANGE" ELSE "WRITE"

\* lines 535-540: the Change/Throttle Gate
GateDecision(st, new_hash, t) ==
  IF st.hash = new_hash THEN "NO-CHANGE"
  ELSE IF t - st.last_write_ts < MIN_WRITE_INTERVAL_SEC THEN "THROTTLE"
  ELSE "WRITE"

-----------------------------------------------------------------------------
(* The environment of the synchroniser: configuration and source sheets *)

StartTime == 100      \* time.time() when the process starts
MaxNow == 220         \* the clock stops the model here

\* seconds between the end of the sleep of the loop and the loop of line
\* 597: the calls of lines 574-580
CycleWork == {27, 57}

\* seconds a call of update_one_month to the API takes, the sleeps of
\* api_call_with_backoff (line 130) included
CallTimes == {0, 30}

Hours == {0, 12, 23}

N_Jan == <<"J", "a", "n">>
N_Feb == <<"F", "e", "b">>
N_JAN == <<"J", "A", "N">>
N_Yanvar == <<"#YA", "#n", "#v", "#a", "#r", "#q">>
N_Fevral == <<"#F", "#e", "#v", "#r", "#a", "#l", "#q">>

\* the titles of the sheets of both source spreadsheets
SOURCE_TITLES == <<N_Yanvar, N_Fevral, N_Jan, N_Feb>>

\* the Settings sheets the model runs with
SettingsSameUpToCase == << <<N_Jan, N_Jan>>, <<N_JAN, N_JAN>> >>
SettingsConfigs ==
  { << <<N_Yanvar, N_Yanvar>>, <<N_Fevral, N_Fevral>> >>,
    << <<N_Jan, N_Jan>>, <<>>, <<N_Feb \o <<" ">>, N_Feb>> >>,
    SettingsSameUpToCase }

MonthsConfigs == {1, 2}

SheetHeader == <<S_Manager, S_Opf, S_Dogovor, S_Akcept, S_Metki>>
RowIvanov ==
  <<S_Ivanov, <<"#T", "#O", "#O", " ", "X">>, <<"#d", "#o", "#g", "#o", "#v", "#o", "#r">>,
    <<"#o", "#p", "#l", "#a", "#t", "#a", " ", "#p", "#r", "#o", "#sh", "#l", "#a">>,
    <<"n", "i", "b">>>>
RowPetrov ==
  <<S_petrov_sp, <<"#I", "#P", " ", "Y">>, <<"#--">>, <<"#n", "#e", "#t">>,
    <<"N", "I", "B", "_", "S", "A", "L", "E", "_", "2", "0", "2", "4">>>>

\* what read_values may return for a sheet of source A and of source B
SourceSheetsA == { <<SheetHeader, RowIvanov>>, <<SheetHeader, RowPetrov, RowIvanov>> }
SourceSheetsB == { <<SheetHeader, RowPetrov>> }

\* what analyze_single_sheet returns for the sheets above (lines 247-344)
AnalysesA == { AnalyzeData(d) : d \in SourceSheetsA }
AnalysesB == { AnalyzeData(d) : d \in SourceSheetsB }

\* One pass of update_one_month up to the gate, over every kind of result of
\* analyze_single_sheet: the names of the pair (found, not found, empty) and
\* the sheets read (rows with managers, no row with a manager, no manager
\* column, no data row, a manager below the gap only).
N_Zzz == <<"Z", "z", "z">>
ReportPairs ==
  { [our |-> N_Jan, yandex |-> N_Feb], [our |-> <<>>, yandex |-> N_Feb],
    [our |-> N_Jan, yandex |-> N_Zzz], [our |-> N_Zzz, yandex |-> <<>>],
    [our |-> N_Fevral, yandex |-> N_Yanvar] }
ReportSheets ==
  { <<SheetHeader, RowIvanov>>, <<SheetHeader, RowIvanov, RowPetrov>>,
    <<SheetHeader, <<>>>>, <<SheetHeader>>, <<<<S_Opf>>, RowIvanov>>,
    <<SheetHeader, <<>>, <<>>, <<>>, <<>>, <<>>, RowIvanov>> }
ReportAnalyses == { AnalyzeData(d) : d \in ReportSheets }

-----------------------------------------------------------------------------
(* analyze_single_sheet as a whole: the sheet is resolved, read and analysed *)

S_Sotrudnik == <<"#S", "#o", "#t", "#r", "#u", "#d", "#n", "#i", "#k">>
S_ManagerEn == <<"M", "a", "n", "a", "g", "e", "r">>
S_Otchet == <<"#O", "#t", "#ch", "#e", "#t">>
N_Jan24 == <<"J", "a", "n", " ", "2", "4">>

\* the titles of the sheets of a source, in the order of the sheets
SheetTitles ==
  { <<N_Jan24, N_Jan, N_Feb>>, <<N_Feb, N_Jan>>, <<N_Yanvar, N_Fevral>> }

\* the names analyze_single_sheet is asked for
AskedNames ==
  { <<>>, N_Jan, <<" ">> \o N_Jan \o <<" ">>, <<"j", "a", "n">>, <<"J", "a">>,
    <<"F", " ", "e", "b">>, N_Zzz, N_Fevral }

\* what read_values may return for the sheet: nothing, or an optional title
\* row, a header row and data rows, with or without an echo of the header
SheetHeaders ==
  { SheetHeader, <<S_Sotrudnik, S_Opf, S_Dogovor, S_Akcept, S_Metki>>,
    <<S_ManagerEn, S_Opf>>, <<S_Opf, S_Dogovor>> }
SheetPrefixes == { <<>>, <<<<S_Otchet>>>> }
WholeSheets ==
  {<<>>}
    \cup { pre \o <<h>> \o body : pre \in SheetPrefixes, h \in SheetHeaders,
                                 body \in {<<>>, <<RowIvanov>>, <<RowIvanov, RowPetrov>>} }
    \cup { pre \o <<h, RowIvanov, h>> : pre \in SheetPrefixes, h \in SheetHeaders }

SheetStart ==
  /\ source_titles_lower \in { TitlesLower(titles) : titles \in SheetTitles }
  /\ asked_name \in AskedNames
  /\ real_name = None
  /\ data = <<>> /\ idx = <<>> /\ stats = << >> /\ is_red_section = FALSE
  /\ consecutive_empty_rows = 0 /\ scan_pc = "resolve" /\ result = <<>>

\* lines 239-244
FindSheet ==
  /\ scan_pc = "resolve"
  /\ IF asked_name = <<>>
     THEN /\ result' = Diag(DIAG_no_sheet)
          /\ scan_pc' = "done"
          /\ UNCHANGED real_name
     ELSE /\ real_name' = find_sheet_smart(source_titles_lower, asked_name)
          /\ IF real_name' = None
             THEN /\ result' = Diag(DIAG_not_found_1 \o asked_name \o DIAG_not_found_2)
                  /\ scan_pc' = "done"
             ELSE /\ scan_pc' = "read"
                  /\ UNCHANGED result
  /\ UNCHANGED <<data, idx, stats, is_red_section, consecutive_empty_rows>>
  /\ UNCHANGED <<source_titles_lower, asked_name, bo_vars, sync_vars>>

\* lines 246-344
AnalyzeSheet ==
  /\ scan_pc = "read"
  /\ \E d \in WholeSheets :
       /\ data' = d
       /\ result' = AnalyzeData(d)
       /\ IF Len(d) < 2
          THEN UNCHANGED <<idx, stats, is_red_section, consecutive_empty_rows>>
          ELSE /\ idx' = ResolveIdx(d)
               /\ IF idx'.man = -1
                  THEN UNCHANGED <<stats, is_red_section, consecutive_empty_rows>>
                  ELSE LET sc == ScanRows(idx', ScanState, d, 2) IN
                       /\ stats' = sc.stats
                       /\ is_red_section' = sc.is_red_section
                       /\ consecutive_empty_rows' = sc.consecutive_empty_rows
  /\ scan_pc' = "done"
  /\ UNCHANGED <<source_titles_lower, asked_name, real_name, bo_vars, sync_vars>>

-----------------------------------------------------------------------------
(* main, run_summary_once and update_one_month, call by call *)

Ev(op, ok) == [op |-> op, ok |-> ok]

CurPair == chosen[pos]
CurReport == ReportSheetName(CurPair.our, CurPair.yandex)

\* lines 203-205: the titles of the destination that are the report name up
\* to case (sheet titles of one spreadsheet differ also up to case)
SheetsTitled(sheets, sheet_name) ==
  {title \in DOMAIN sheets : lower(title) = lower(sheet_name)}

\* line 542: what ensure_sheet_exists returns, the title found or the report
\* name of the sheet it adds
real_title ==
  IF SheetsTitled(dest, CurReport) # {}
  THEN CHOOSE title \in SheetsTitled(dest, CurReport) : TRUE
  ELSE CurReport

\* the calls of update_one_month that go to the API and may raise
ApiSteps == {"read_a", "read_b", "ensure", "clear", "write", "format", "stamp"}

StepAfterPersistFirst(p) ==
  CASE p = "read_a" -> "read_b"
    [] p = "read_b" -> "gate"
    [] p = "gate" -> "ensure"
    [] p = "ensure" -> "persist"
    [] p = "persist" -> "clear"
    [] p = "clear" -> "write"
    [] p = "write" -> "format"
    [] p = "format" -> "stamp"
    [] p = "stamp" -> "pass_done"

\* the order of the statements of update_one_month (lines 517-564)
StepAfter(p) ==
  CASE p = "read_a" -> "read_b"
    [] p = "read_b" -> "gate"
    [] p = "gate" -> "ensure"
    [] p = "ensure" -> "clear"
    [] p = "clear" -> "write"
    [] p = "write" -> "format"
    [] p = "format" -> "stamp"
    [] p = "stamp" -> "persist"
    [] p = "persist" -> "pass_done"

OnErrorReadFallback(p) ==
  IF p = "read_a" THEN "read_b" ELSE IF p = "read_b" THEN "gate" ELSE "except"

OnErrorUncaught(p) == "crashed"

\* where an exception raised by a call of update_one_month goes: nothing in
\* update_one_month or run_summary_once catches it, main does (line 12)
OnError(p) == "except"

\* what the history keeps of a write_values of the grid (line 550): when it
\* happened, the grid, whether it wrote again a grid whose pass had stopped
\* before write_state, and whether its own pass reached write_state
NewEntry(led, r, grid, t) ==
  [ts |-> t, grid |-> grid,
   redo |-> r \in DOMAIN led /\ ~led[r].persisted /\ led[r].grid = grid,
   persisted |-> FALSE]

SyncIdle ==
  /\ pc = "off" /\ now = 0 /\ settings = <<>> /\ max_months = 1
  /\ cursor_file = <<>> /\ files = << >> /\ dest = << >> /\ start = 0
  /\ chosen = <<>> /\ pos = 0 /\ our_data = <<>> /\ yandex_data = <<>>
  /\ values = <<>> /\ log = <<>> /\ last_error = FALSE /\ ledger = << >>

SyncStart ==
  /\ pc = "run" /\ now = StartTime
  /\ settings \in SettingsConfigs /\ max_months \in MonthsConfigs
  /\ settings = SettingsSameUpToCase => max_months = 1
  /\ cursor_file = <<>> /\ files = << >> /\ dest = << >> /\ start = 0
  /\ chosen = <<>> /\ pos = 0 /\ our_data = <<>> /\ yandex_data = <<>>
  /\ values = <<>> /\ log = <<>> /\ last_error = FALSE /\ ledger = << >>

\* run_summary_once up to the loop of line 597
RunSummaryOnce ==
  /\ pc = "run"
  /\ \E hour \in Hours, pairs \in {Pairs(settings)} :
       IF ~in_work_window(hour) \/ pairs = <<>>
       THEN /\ pc' = "sleep" /\ last_error' = FALSE
            /\ UNCHANGED <<cursor_file, start, chosen, pos>>
       ELSE /\ start' = read_cursor(cursor_file) % Len(pairs)
            /\ chosen' = Chosen(pairs, start', max_months)
            /\ cursor_file' = write_cursor(NextCursor(pairs, start', max_months))
            /\ pos' = 1
            /\ pc' = "read_a"
            /\ UNCHANGED last_error
  /\ UNCHANGED <<now, settings, max_months, files, dest, our_data, yandex_data,
                 values, log, scan_vars, bo_vars>>
  /\ UNCHANGED ledger

\* get_service, get_sheet_titles_lower or the read of Settings raises
RunSummaryRaises ==
  /\ pc = "run"
  /\ pc' = OnError("run")
  /\ UNCHANGED <<now, settings, max_months, cursor_file, files, dest, start,
                 chosen, pos, our_data, yandex_data, values, log, last_error,
                 scan_vars, bo_vars>>
  /\ UNCHANGED ledger

\* the clock while a call to the API runs
CallTakesTime == \E dt \in CallTimes : now + dt <= MaxNow /\ now' = now + dt

\* line 517: analyze_single_sheet of source A
ReadAFrom(analyses) ==
  /\ pc = "read_a"
  /\ IF ReadsSheet(TitlesLower(SOURCE_TITLES), CurPair.our)
     THEN /\ \E r \in analyses : our_data' = r
          /\ log' = Append(log, Ev("read_a", TRUE))
          /\ CallTakesTime
     ELSE /\ our_data' = analyze_single_sheet(TitlesLower(SOURCE_TITLES), CurPair.our, <<>>)
          /\ UNCHANGED <<log, now>>
  /\ pc' = StepAfter("read_a")
  /\ UNCHANGED <<settings, max_months, cursor_file, files, dest, start,
                 chosen, pos, yandex_data, values, last_error, scan_vars, bo_vars>>
  /\ UNCHANGED ledger

\* line 518: analyze_single_sheet of source B
ReadBFrom(analyses) ==
  /\ pc = "read_b"
  /\ IF ReadsSheet(TitlesLower(SOURCE_TITLES), CurPair.yandex)
     THEN /\ \E r \in analyses : yandex_data' = r
          /\ log' = Append(log, Ev("read_b", TRUE))
          /\ CallTakesTime
     ELSE /\ yandex_data' = analyze_single_sheet(TitlesLower(SOURCE_TITLES), CurPair.yandex, <<>>)
          /\ UNCHANGED <<log, now>>
  /\ pc' = StepAfter("read_b")
  /\ UNCHANGED <<settings, max_months, cursor_file, files, dest, start,
                 chosen, pos, our_data, values, last_error, scan_vars, bo_vars>>
  /\ UNCHANGED ledger

ReadA == ReadAFrom(AnalysesA)
ReadB == ReadBFrom(AnalysesB)

\* lines 520-540: the grid, its hash and the gate
Gate ==
  /\ pc = "gate"
  /\ values' = ReportValues(CurPair.our, our_data, CurPair.yandex, yandex_data)
  /\ \E decision \in {GateDecision(read_state(files, CurReport), compute_hash(values'), now)} :
       IF decision = "WRITE"
       THEN pc' = StepAfter("gate") /\ UNCHANGED log
       ELSE pc' = "pass_done" /\ log' = Append(log, Ev(decision, TRUE))
  /\ UNCHANGED <<now, settings, max_months, cursor_file, files, dest, start,
                 chosen, pos, our_data, yandex_data, last_error, scan_vars, bo_vars>>
  /\ UNCHANGED ledger

\* line 542: ensure_sheet_exists
EnsureSheet ==
  /\ pc = "ensure"
  /\ IF SheetsTitled(dest, CurReport) # {}
     THEN UNCHANGED <<dest, log, now>>
     ELSE /\ dest' = [r \in DOMAIN dest \cup {CurReport} |->
                        IF r = CurReport THEN <<>> ELSE dest[r]]
          /\ log' = Append(log, Ev("ensure", TRUE))
          /\ CallTakesTime
  /\ pc' = StepAfter("ensure")
  /\ UNCHANGED <<settings, max_months, cursor_file, files, start, chosen,
                 pos, our_data, yandex_data, values, last_error, scan_vars, bo_vars>>
  /\ UNCHANGED ledger

\* line 549: clear_range
ClearDest ==
  /\ pc = "clear"
  /\ dest' = [dest EXCEPT ![real_title] = ClearRange(@, Len(values))]
  /\ log' = Append(log, Ev("clear", TRUE))
  /\ pc' = StepAfter("clear")
  /\ CallTakesTime
  /\ UNCHANGED <<settings, max_months, cursor_file, files, start, chosen,
                 pos, our_data, yandex_data, values, last_error, scan_vars, bo_vars>>
  /\ UNCHANGED ledger

\* line 550: write_values of the grid
WriteDest ==
  /\ pc = "write"
  /\ dest' = [dest EXCEPT ![real_title] = WriteRange(@, values)]
  /\ log' = Append(log, Ev("write", TRUE))
  /\ pc' = StepAfter("write")
  /\ CallTakesTime
  /\ UNCHANGED <<settings, max_months, cursor_file, files, start, chosen,
                 pos, our_data, yandex_data, values, last_error, scan_vars, bo_vars>>
  /\ ledger' = [r \in DOMAIN ledger \cup {CurReport} |->
                  IF r = CurReport THEN NewEntry(ledger, r, values, now) ELSE ledger[r]]

\* lines 553-559: get_sheet_id_by_title and batch_format_report
FormatDest ==
  /\ pc = "format"
  /\ log' = Append(log, Ev("format", TRUE))
  /\ pc' = StepAfter("format")
  /\ CallTakesTime
  /\ UNCHANGED <<settings, max_months, cursor_file, files, dest, start,
                 chosen, pos, our_data, yandex_data, values, last_error,
                 scan_vars, bo_vars>>
  /\ UNCHANGED ledger

\* lines 561-562: the 'updated' text written to N1
StampDest ==
  /\ pc = "stamp"
  /\ log' = Append(log, Ev("stamp", TRUE))
  /\ pc' = StepAfter("stamp")
  /\ CallTakesTime
  /\ UNCHANGED <<settings, max_months, cursor_file, files, dest, start,
                 chosen, pos, our_data, yandex_data, values, last_error,
                 scan_vars, bo_vars>>
  /\ UNCHANGED ledger

\* line 564: write_state
Persist ==
  /\ pc = "persist"
  /\ files' = write_state(files, CurReport,
                          [hash |-> compute_hash(values), last_write_ts |-> now])
  /\ log' = Append(log, Ev("write_state", TRUE))
  /\ pc' = StepAfter("persist")
  /\ UNCHANGED <<now, settings, max_months, cursor_file, dest, start, chosen,
                 pos, our_data, yandex_data, values, last_error, scan_vars, bo_vars>>
  /\ ledger' = [r \in DOMAIN ledger |->
                  IF r = CurReport THEN [ledger[r] EXCEPT !.persisted = TRUE]
                  ELSE ledger[r]]

\* a call of update_one_month to the API raises
ApiRaises ==
  /\ pc \in ApiSteps
  /\ pc = "read_a" => ReadsSheet(TitlesLower(SOURCE_TITLES), CurPair.our)
  /\ pc = "read_b" => ReadsSheet(TitlesLower(SOURCE_TITLES), CurPair.yandex)
  /\ pc = "ensure" => SheetsTitled(dest, CurReport) = {}
  /\ log' = Append(log, Ev(pc, FALSE))
  /\ pc' = OnError(pc)
  /\ CallTakesTime
  /\ UNCHANGED <<settings, max_months, cursor_file, files, dest, start,
                 chosen, pos, our_data, yandex_data, values, last_error,
                 scan_vars, bo_vars>>
  /\ UNCHANGED ledger

\* update_one_month returns: the next pair of chosen (line 597), or the end
\* of run_summary_once
PassReturn ==
  /\ pc = "pass_done"
  /\ IF pos < Len(chosen)
     THEN /\ pos' = pos + 1 /\ pc' = "read_a" /\ UNCHANGED last_error
     ELSE /\ pc' = "sleep" /\ last_error' = FALSE /\ UNCHANGED pos
  /\ our_data' = <<>> /\ yandex_data' = <<>> /\ values' = <<>> /\ log' = <<>>
  /\ UNCHANGED <<now, settings, max_months, cursor_file, files, dest, start,
                 chosen, scan_vars, bo_vars>>
  /\ UNCHANGED ledger

\* main, lines 12-14: the exception of the cycle is caught and printed
Except ==
  /\ pc = "except"
  /\ last_error' = TRUE
  /\ pc' = "sleep"
  /\ our_data' = <<>> /\ yandex_data' = <<>> /\ values' = <<>> /\ log' = <<>>
  /\ UNCHANGED <<now, settings, max_months, cursor_file, files, dest, start,
                 chosen, pos, scan_vars, bo_vars>>
  /\ UNCHANGED ledger

\* main, line 15: time.sleep, then the next cycle; the clock is read next at
\* the gate, after the calls of lines 574-580 of that cycle, which take w
Sleep ==
  /\ pc = "sleep"
  /\ \E w \in CycleWork :
       /\ now + LOOP_SLEEP_SEC + w <= MaxNow
       /\ now' = now + LOOP_SLEEP_SEC + w
  /\ pc' = "run"
  /\ start' = 0 /\ chosen' = <<>> /\ pos' = 0
  /\ UNCHANGED <<settings, max_months, cursor_file, files, dest, our_data,
                 yandex_data, values, log, last_error, scan_vars, bo_vars>>
  /\ UNCHANGED ledger

-----------------------------------------------------------------------------
(* Claims about update_one_month, run_summary_once and main *)

DestOps == {"ensure", "clear", "write", "format", "stamp"}

LogHas(e) == \E i \in DOMAIN log : log[i] = e

\* the grid and the hash the gate is about to compute
GateGrid == ReportValues(CurPair.our, our_data, CurPair.yandex, yandex_data)
GateState == read_state(files, CurReport)

\* C3: at the gate, a fingerprint equal to the persisted hash gives NO-CHANGE
\* whatever the elapsed time; a different fingerprint with
\* now - last_write_ts < MIN_WRITE_INTERVAL_SEC gives THROTTLE; either way the
\* pass ends there: no call goes to the destination and the persisted state is
\* left as it was.
C3_GateNoOpAndDefer ==
  /\ [](\A i \in DOMAIN log :
          log[i].op \in {"NO-CHANGE", "THROTTLE"} =>
             /\ i = Len(log) /\ pc = "pass_done"
             /\ \A j \in DOMAIN log : log[j].op \notin DestOps \cup {"write_state"})
  /\ [][ pc = "gate" =>
           LET same == GateState.hash = compute_hash(GateGrid)
               early == now - GateState.last_write_ts < MIN_WRITE_INTERVAL_SEC
           IN (same \/ early) =>
                /\ pc' = "pass_done"
                /\ log' = Append(log, Ev(IF same THEN "NO-CHANGE" ELSE "THROTTLE", TRUE))
                /\ files' = files /\ dest' = dest ]_vars

\* the gate has said NO-CHANGE a full interval or more after the last write
C3_Witness ==
  /\ pc = "pass_done" /\ log # <<>> /\ log[Len(log)].op = "NO-CHANGE"
  /\ now - GateState.last_write_ts >= MIN_WRITE_INTERVAL_SEC

\* the gate has deferred a changed report
C3_WitnessDefer ==
  /\ pc = "pass_done" /\ log # <<>> /\ log[Len(log)].op = "THROTTLE"
  /\ GateState.hash # None

\* the reports of the Settings sheet
Reports == {ReportSheetName(p.our, p.yandex) : p \in Range(Pairs(settings))}

\* C4: two different report names never share throttle state: a write_state
\* for one report leaves what read_state returns for every other report (its
\* hash and its last_write_ts) as it was.
C4_NoSharedThrottleState ==
  [][ pc = "persist" =>
        \A r \in Reports \ {CurReport} :
          read_state(files', r) = read_state(files, r) ]_vars

\* C5: in a pass the read of source A comes before the read of source B, both
\* before the clear and the write of the destination, and these before the
\* update of the persisted state; the persisted state changes only by the
\* write_state of a pass in which the grid was written and no call failed.
C5_PassOrder ==
  /\ [](\A j \in DOMAIN log :
          /\ log[j].op \in {"read_a", "read_b"} =>
               \A i \in 1..(j - 1) :
                 /\ log[i].op \notin DestOps \cup {"write_state"}
                 /\ log[j].op = "read_a" => log[i].op # "read_b"
          /\ log[j].op \in {"clear", "write", "write_state"} =>
               /\ ReadsSheet(TitlesLower(SOURCE_TITLES), CurPair.our) =>
                    \E i \in 1..(j - 1) : log[i] = Ev("read_a", TRUE)
               /\ ReadsSheet(TitlesLower(SOURCE_TITLES), CurPair.yandex) =>
                    \E i \in 1..(j - 1) : log[i] = Ev("read_b", TRUE)
          /\ log[j].op = "write" => \E i \in 1..(j - 1) : log[i] = Ev("clear", TRUE)
          /\ log[j].op = "write_state" =>
               /\ \E i \in 1..(j - 1) : log[i] = Ev("write", TRUE)
               /\ \A i \in 1..(j - 1) : log[i].ok)
  /\ [][ files' # files =>
           /\ log' = Append(log, Ev("write_state", TRUE))
           /\ LogHas(Ev("write", TRUE))
           /\ \A i \in DOMAIN log : log[i].ok ]_vars

\* a pass that went through to write_state
C5_Witness ==
  /\ pc = "pass_done" /\ log # <<>> /\ log[Len(log)] = Ev("write_state", TRUE)
  /\ LogHas(Ev("read_a", TRUE)) /\ LogHas(Ev("read_b", TRUE))

\* C6: when the read of source A or of source B raises, the pass issues no
\* clear, write or format (no call at all) to the destination and leaves the
\* report's persisted state, and the report, as they were.
C6_FailedReadWritesNothing ==
  /\ [](\A i \in DOMAIN log :
          (log[i].op \in {"read_a", "read_b"} /\ ~log[i].ok) =>
             /\ i = Len(log) /\ pc = "except"
             /\ \A j \in DOMAIN log : log[j].op \notin DestOps \cup {"write_state"})
  /\ [][ (pc \in {"read_a", "read_b"} /\ log' = Append(log, Ev(pc, FALSE))) =>
           (files' = files /\ dest' = dest) ]_vars

\* the read of source B has failed for a report that was synced before
C6_Witness ==
  /\ pc = "except" /\ log # <<>> /\ log[Len(log)] = Ev("read_b", FALSE)
  /\ real_title \in DOMAIN dest /\ dest[real_title] # <<>>
  /\ state_path(CurReport) \in DOMAIN files

\* the clock of the model lets the loop sleep once more
CanSleep == \E w \in CycleWork : now + LOOP_SLEEP_SEC + w <= MaxNow

\* C7: the loop of main never stops because of a failed cycle: an exception
\* of the cycle is caught and logged, every cycle, failed or not, comes to
\* the sleep of the loop, and after the sleep the next cycle begins.
C7_NextCycleBegins ==
  /\ [][ pc = "except" => (pc' = "sleep" /\ last_error') ]_vars
  /\ (pc # "sleep") ~> (pc = "sleep")
  /\ (pc = "sleep" /\ CanSleep) ~> (pc = "run")

\* a cycle begins after a failed one
C7_Witness == pc = "run" /\ last_error /\ now > StartTime

\* C10: with pairs configured, a cycle processes the pairs that follow the
\* persisted cursor (wrapping) and leaves the cursor advanced by the number of
\* reports it processed, modulo the number of pairs, so within 0..len-1.
C10_CursorAdvancesByProcessed ==
  (pc = "sleep" /\ chosen # <<>>) =>
     LET pairs == Pairs(settings) IN
     /\ \A j \in 1..pos : chosen[j] = pairs[((start + j - 1) % Len(pairs)) + 1]
     /\ read_cursor(cursor_file) \in 0..(Len(pairs) - 1)
     /\ read_cursor(cursor_file) = (start + pos) % Len(pairs)

\* write_values of the grid (line 550) is about to succeed for the report
WritesGrid == pc = "write" /\ log' = Append(log, Ev("write", TRUE))

\* C11: any two writes of the grid to the same report are at least
\* MIN_WRITE_INTERVAL_SEC apart, also when a cycle in between failed part-way:
\* whenever write_values of the grid succeeds for a report that was written
\* before, the previous write of its grid is MIN_WRITE_INTERVAL_SEC or more
\* in the past.
C11_WritesApartAlways ==
  [][ (WritesGrid /\ CurReport \in DOMAIN ledger) =>
        now - ledger[CurReport].ts >= MIN_WRITE_INTERVAL_SEC ]_vars

\* the report's last write wrote again the grid of a pass that had stopped
\* before write_state, and its own pass ran to write_state
Redone(r) == r \in DOMAIN ledger /\ ledger[r].redo /\ ledger[r].persisted

\* C12: after a pass that wrote the grid and stopped before write_state, the
\* same grid is written again in at most one later pass: once that pass has
\* run to write_state, every further pass over the same grid gets NO-CHANGE
\* from the gate and writes nothing.
C12_OneRedundantRewrite ==
  /\ [][ (pc = "gate" /\ Redone(CurReport) /\ ledger[CurReport].grid = GateGrid) =>
           log' = Append(log, Ev("NO-CHANGE", TRUE)) ]_vars
  /\ [][ (WritesGrid /\ Redone(CurReport)) => ledger[CurReport].grid # values ]_vars

\* the grid with rows i and j exchanged
SwapRows(grid, i, j) ==
  [k \in DOMAIN grid |-> IF k = i THEN grid[j] ELSE IF k = j THEN grid[i] ELSE grid[k]]

\* C16: the hash is a function of the grid and of its row order only.  A pass
\* that computes the grid the report's last completed sync wrote (whatever the
\* time and the N1 stamp) ends at the gate, without a call to the destination
\* or a change of the state; and exchanging two different rows of a grid
\* changes the hash.
C16_FingerprintOfGridOnly ==
  /\ [][ (pc = "gate" /\ CurReport \in DOMAIN ledger /\ ledger[CurReport].persisted
           /\ ledger[CurReport].grid = GateGrid)
        => pc' = "pass_done" /\ dest' = dest /\ files' = files ]_vars
  /\ [](pc = "ensure" =>
          \A i \in DOMAIN values : \A j \in (i + 1)..Len(values) :
             values[i] # values[j] =>
                compute_hash(SwapRows(values, i, j)) # compute_hash(values))

\* title k of the map matches the asked name by containment, spaces removed
FuzzyMatch(k) ==
  LET clean == RemoveSpaces(lower(source_titles_lower[k].real))
      search_clean == RemoveSpaces(lower(asked_name))
  IN Contains(search_clean, clean) \/ Contains(clean, search_clean)

\* title k of the map is the asked name, trimmed, whatever the case
ExactMatch(k) == lower(source_titles_lower[k].real) = lower(strip(asked_name))

\* C14: when a title of the map matches the trimmed asked name exactly,
\* find_sheet_smart returns that title, also when an earlier title of the map
\* matches by containment with the spaces removed; when no title matches
\* either way it returns None.
C14_ExactMatchWins ==
  (scan_pc \in {"read", "done"} /\ asked_name # <<>>) =>
     /\ \A k \in DOMAIN source_titles_lower :
          ExactMatch(k) => real_name = source_titles_lower[k].real
     /\ (\A k \in DOMAIN source_titles_lower : ~ExactMatch(k) /\ ~FuzzyMatch(k))
          => real_name = None

\* the exact title was returned although the first title of the map matches
\* by containment
C14_Witness ==
  /\ scan_pc = "read"
  /\ \E k \in 2..Len(source_titles_lower) :
       /\ ExactMatch(k) /\ real_name = source_titles_lower[k].real
       /\ FuzzyMatch(1) /\ ~ExactMatch(1)

\* nothing matched: None, and the 'not found' diagnostic
C14_WitnessNone ==
  /\ scan_pc = "done" /\ asked_name # <<>> /\ real_name = None
  /\ result = Diag(DIAG_not_found_1 \o asked_name \o DIAG_not_found_2)

\* row names the manager column: one of its cells contains a manager keyword
RowNamesManager(row) == find_idx(HeaderCells(row), KEYWORDS.MANAGER) # -1

\* C18: for every sheet of at least 2 rows whose row 0 has no manager keyword
\* and whose row 1 has one, the manager column is resolved from row 1 and the
\* rows are aggregated; the 'manager column not found' diagnostic is returned
\* only when neither row 0 nor row 1 has a manager keyword.
C18_HeaderFallback ==
  (scan_pc = "done" /\ Len(data) >= 2) =>
     /\ (~RowNamesManager(data[1]) /\ RowNamesManager(data[2])) =>
           /\ idx.man = find_idx(HeaderCells(data[2]), KEYWORDS.MANAGER)
           /\ result = BuildResult(stats)
     /\ result = Diag(DIAG_no_manager) =>
           ~RowNamesManager(data[1]) /\ ~RowNamesManager(data[2])

\* the label of the manager column in the header row of the sheet
HeaderLabel ==
  IF RowNamesManager(data[1]) THEN Cell(data[1], idx.man) ELSE Cell(data[2], idx.man)

\* C19: the rows whose manager cell, normalized, is the label of the manager
\* column of the header (the header row itself on row 1 after the fallback,
\* or an echo of it further down) are skipped whichever keyword the header
\* uses: the label is no manager of the statistics nor of the result.
C19_HeaderEchoSkipped ==
  (scan_pc = "done" /\ Len(data) >= 2 /\ idx.man # -1) =>
     /\ normalize_name(HeaderLabel) \notin DOMAIN stats
     /\ \A k \in DOMAIN result : result[k][1].s # normalize_name(HeaderLabel)

\* C13: every row of the grid of a report has exactly 13 columns, whatever
\* the two results of analyze_single_sheet are: result rows, a one-cell
\* diagnostic, or no row at all.
C13_ThirteenColumns ==
  \A r \in DOMAIN values : Len(values[r]) = 13

\* a grid built from a one-cell diagnostic and from a result without rows
C13_Witness ==
  /\ pc = "ensure" /\ values # <<>>
  /\ Len(our_data) = 1 /\ Len(our_data[1]) = 1 /\ yandex_data = <<>>

\* a grid built from result rows on both sides
C13_WitnessRows ==
  /\ pc = "ensure" /\ values # <<>>
  /\ Len(our_data) = 2 /\ Len(our_data[1]) = 13 /\ Len(yandex_data) = 1

\* rows 1..rows of columns A..M of a destination sheet
DestRange(sheet, rows) ==
  [j \in 1..rows |-> IF j <= Len(sheet) THEN sheet[j] ELSE Blanks(13)]

\* C21: whenever the persisted hash of a report equals the hash of the grid
\* just computed (the gate is about to answer NO-CHANGE), the range A1:M<rows>
\* of the report's sheet holds that grid, whatever passes came before,
\* failed ones included.
C21_NoChangeMeansDestHoldsGrid ==
  (pc = "gate" /\ GateState.hash = compute_hash(GateGrid)) =>
     /\ real_title \in DOMAIN dest
     /\ DestRange(dest[real_title], Len(GateGrid)) = GateGrid

\* C22: when a pass has run to write_state, columns A..M of the report's
\* sheet hold the grid of that pass and nothing else: no row of an earlier,
\* longer grid is left below it.
C22_DestIsExactlyTheGrid ==
  (pc = "pass_done" /\ LogHas(Ev("write_state", TRUE))) =>
     dest[real_title] = TrimBlankRows(values)

\* C20: in the grid each block is a title row, the header row and then the
\* data rows or one padded diagnostic row, never no row at all; five blank
\* rows follow the first block, and the title of the second block is at the
\* row index (from 0) 2 + len(first block data) + 5 the formatter is given.
C20_BlockLayout ==
  pc = "ensure" =>
    LET la == Len(our_data)
        lb == Len(yandex_data)
        header == [k \in DOMAIN HEADERS |-> StrCell(HEADERS[k])]
        args == FormatArgs(PadDiag(our_data), PadDiag(yandex_data))
    IN /\ la >= 1 /\ lb >= 1
       /\ Len(values) = (2 + la) + 5 + (2 + lb)
       /\ values[1][1] = StrCell(Title(TITLE_our, CurPair.our))
       /\ values[2] = header
       /\ \A j \in 1..la : values[2 + j][1] = our_data[j][1]
       /\ \A j \in 1..5 : values[2 + la + j] = Blanks(13)
       /\ args.our_rows = 2 + la
       /\ args.yandex_start_row = 2 + la + 5
       /\ values[args.yandex_start_row + 1][1] = StrCell(Title(TITLE_yandex, CurPair.yandex))
       /\ values[args.yandex_start_row + 2] = header
       /\ \A j \in 1..lb : values[args.yandex_start_row + 2 + j][1] = yandex_data[j][1]

-----------------------------------------------------------------------------
(* The specifications *)

InitScan == ScanStart /\ BackoffIdle /\ SyncIdle
NextScan == ScanNextRow \/ ScanFinish
SpecScan == InitScan /\ [][NextScan]_vars

InitBackoff == BackoffStart /\ ScanIdle /\ SyncIdle
NextBackoff == BackoffReturn \/ BackoffFailure \/ BackoffExhausted
SpecBackoff == InitBackoff /\ [][NextBackoff]_vars

InitSync == SyncStart /\ ScanIdle /\ BackoffIdle
NextSync ==
  \/ RunSummaryOnce \/ RunSummaryRaises
  \/ ReadA \/ ReadB \/ Gate \/ EnsureSheet \/ ClearDest \/ WriteDest
  \/ FormatDest \/ StampDest \/ Persist \/ ApiRaises
  \/ PassReturn \/ Except \/ Sleep
SpecSync == InitSync /\ [][NextSync]_vars

\* one pass of update_one_month from line 517 to the gate
ReportStart ==
  /\ pc = "read_a" /\ now = StartTime /\ settings = <<>> /\ max_months = 1
  /\ cursor_file = <<>> /\ files = << >> /\ dest = << >> /\ start = 0
  /\ chosen \in { <<p>> : p \in ReportPairs } /\ pos = 1
  /\ our_data = <<>> /\ yandex_data = <<>> /\ values = <<>> /\ log = <<>>
  /\ last_error = FALSE /\ ledger = << >>
ReportReadA == ReadAFrom(ReportAnalyses)
ReportReadB == ReadBFrom(ReportAnalyses)
InitSheet == SheetStart /\ BackoffIdle /\ SyncIdle
NextSheet == FindSheet \/ AnalyzeSheet
SpecSheet == InitSheet /\ [][NextSheet]_vars

InitReport == ReportStart /\ ScanIdle /\ BackoffIdle
NextReport == ReportReadA \/ ReportReadB \/ Gate
SpecReport == InitReport /\ [][NextReport]_vars

\* The process is sequential and always takes its next step; it runs with
\* the MAX_MONTHS_PER_RUN of line 23 and a Settings sheet of two pairs.
InitFair ==
  /\ InitSync /\ max_months = 1
  /\ settings = << <<N_Yanvar, N_Yanvar>>, <<N_Fevral, N_Fevral>> >>
FairSync == InitFair /\ [][NextSync]_vars /\ WF_vars(NextSync)

=============================================================================
